---- MODULE Spec2Model ----
(***************************************************************************)
(* A model of cserv, a minimal HTTP/1.1 static file server.                *)
(*                                                                         *)
(* A byte is a one-character string; the zero byte and one byte outside    *)
(* the text range are the tokens NUL and HIGH.  A C character buffer is    *)
(* the sequence of its bytes; a C string is the bytes before the first     *)
(* NUL.  A null character pointer is NULLP, a null structure pointer is    *)
(* NULL.                                                                   *)
(***************************************************************************)
EXTENDS Integers, Sequences, FiniteSets, TLC

NUL == "\\0"
HIGH == "\\xff"
NULLP == <<"(null)">>
NULL == [null |-> TRUE]

\* The bytes of a string literal.
Str(s) == [i \in 1..Len(s) |-> SubSeq(s, i, i)]

Min(a, b) == IF a <= b THEN a ELSE b

\* The first n elements of s (all of s if it is shorter).
Take(s, n) == SubSeq(s, 1, Min(n, Len(s)))

\* The elements of s from position p on.
Drop(s, p) == SubSeq(s, p, Len(s))

\* n copies of the byte c.
Rep(c, n) == [i \in 1..n |-> c]

(***************************************************************************)
(* The C library, as far as the program uses it.                           *)
(***************************************************************************)
LowerCase == {"a","b","c","d","e","f","g","h","i","j","k","l","m",
              "n","o","p","q","r","s","t","u","v","w","x","y","z"}
UpperCase == {"A","B","C","D","E","F","G","H","I","J","K","L","M",
              "N","O","P","Q","R","S","T","U","V","W","X","Y","Z"}
Digit == {"0","1","2","3","4","5","6","7","8","9"}
UpperSeq == Str("ABCDEFGHIJKLMNOPQRSTUVWXYZ")
LowerSeq == Str("abcdefghijklmnopqrstuvwxyz")

tolower(c) ==
    IF c \in UpperCase
    THEN LowerSeq[CHOOSE i \in 1..Len(UpperSeq) : UpperSeq[i] = c]
    ELSE c

\* isspace in the C locale (the vertical tab has no literal here and no
\* input of the model holds one).
isspace(c) == c \in {" ", "\t", "\n", "\r", "\f"}

\* The smallest position i >= p of s whose membership in set is wanted,
\* and Len(s) + 1 when there is none.
FirstAt(s, p, set, wanted) ==
    CHOOSE i \in p..(Len(s) + 1) :
        /\ (i = Len(s) + 1 \/ ((s[i] \in set) = wanted))
        /\ \A j \in p..(i - 1) : (s[j] \in set) # wanted

\* strlen of the string held in buffer b: the bytes before the first NUL.
strlen(b) == FirstAt(b, 1, {NUL}, TRUE) - 1

\* The C string a buffer holds.
CStr(b) == SubSeq(b, 1, strlen(b))

\* strcmp(a, b) == 0
strcmp_eq(a, b) == a = b

Lower(s) == [i \in 1..Len(s) |-> tolower(s[i])]

\* strcasecmp(a, b) == 0
strcasecmp_eq(a, b) == Lower(a) = Lower(b)

\* strncasecmp(a, b, n) == 0: the first n bytes agree, a string that ends
\* earlier differing from one that goes on.
strncasecmp_eq(a, b, n) == Lower(Take(a, n)) = Lower(Take(b, n))

\* strstr(haystack, needle) != NULL
strstr_found(haystack, needle) ==
    \E i \in 1..(Len(haystack) - Len(needle) + 1) :
        SubSeq(haystack, i, i + Len(needle) - 1) = needle

\* A mutation: the copy is not bounded by the size of the field.
strncpy_field_unbounded(src, cap) == src

\* strncpy(dst, src, cap - 1) into a zeroed field of cap bytes: the string
\* the field then holds.
strncpy_field(src, cap) == Take(src, cap - 1)

\* strtok_r(s, delims, &save), scanning s from position p: skip the bytes
\* in delims, then take the bytes up to the next one in delims.  tok is
\* NULLP when only delimiters are left; next is where the following call
\* resumes.
strtok_r(s, p, delims) ==
    LET start == FirstAt(s, p, delims, FALSE)
        end   == FirstAt(s, start, delims, TRUE)
    IN  IF start > Len(s)
        THEN [tok |-> NULLP, next |-> Len(s) + 1]
        ELSE [tok |-> SubSeq(s, start, end - 1),
              next |-> Min(end + 1, Len(s) + 1)]

(***************************************************************************)
(* Sizes of the fixed-size fields.                                         *)
(***************************************************************************)
MAX_DIR_PATH_SIZE == 4096
REQ_METHOD_SIZE == 16
REQ_PATH_SIZE == 512
REQ_VERSION_SIZE == 16
REQ_HOST_SIZE == 256
REQ_USER_AGENT_SIZE == 512
REQ_ACCEPT_SIZE == 256
REQ_CONNECTION_SIZE == 32
RES_CONTENT_TYPE_SIZE == 64
RES_STATUS_MESSAGE_SIZE == 64

SUCCESS == "SUCCESS"
FAILURE == "FAILURE"

(***************************************************************************)
(* Path validator.                                                         *)
(***************************************************************************)
PathChar == LowerCase \cup UpperCase \cup Digit \cup {"/", "_", ".", "-"}

\* A mutation: the check for ".." is left out.
validate_path_no_dotdot(path) ==
    IF path = NULLP THEN FAILURE
    ELSE IF Len(path) = 0 \/ path[1] # "/" THEN FAILURE
    ELSE IF \E i \in 1..Len(path) : path[i] \notin PathChar THEN FAILURE
    ELSE SUCCESS

validate_path(path) ==
    IF path = NULLP THEN FAILURE
    ELSE IF Len(path) = 0 \/ path[1] # "/" THEN FAILURE
    ELSE IF strstr_found(path, Str("..")) THEN FAILURE
    ELSE IF \E i \in 1..Len(path) : path[i] \notin PathChar THEN FAILURE
    ELSE SUCCESS

(***************************************************************************)
(* Request parser.                                                         *)
(***************************************************************************)
CRLF == {"\r", "\n"}

HTTP_METHOD_GET == "HTTP_METHOD_GET"
UNRECOGNIZED == "UNRECOGNIZED"

\* The method enumeration, in the order of the comparisons.
MethodTable ==
    << <<Str("GET"), HTTP_METHOD_GET>>,
       <<Str("HEAD"), "HTTP_METHOD_HEAD">>,
       <<Str("POST"), "HTTP_METHOD_POST">>,
       <<Str("PUT"), "HTTP_METHOD_PUT">>,
       <<Str("DELETE"), "HTTP_METHOD_DELETE">>,
       <<Str("CONNECT"), "HTTP_METHOD_CONNECT">>,
       <<Str("OPTIONS"), "HTTP_METHOD_OPTIONS">>,
       <<Str("TRACE"), "HTTP_METHOD_TRACE">>,
       <<Str("PATCH"), "HTTP_METHOD_PATCH">> >>

\* The enumerated method a token names, compared without regard to case,
\* and the value -1 (UNRECOGNIZED) for any other token.
method_str_to_enum(method) ==
    IF \E i \in 1..Len(MethodTable) : strcasecmp_eq(method, MethodTable[i][1])
    THEN MethodTable[CHOOSE i \in 1..Len(MethodTable) :
                        /\ strcasecmp_eq(method, MethodTable[i][1])
                        /\ \A j \in 1..(i - 1) :
                              ~strcasecmp_eq(method, MethodTable[j][1])][2]
    ELSE UNRECOGNIZED

\* The string left in place by trim_whitespace: without its leading and
\* trailing white space.
trim_whitespace(str) ==
    LET start == FirstAt(str, 1, {" ", "\t", "\n", "\r", "\f"}, FALSE)
    IN  IF start > Len(str)
        THEN <<>>
        ELSE LET end == CHOOSE e \in start..Len(str) :
                            /\ ~isspace(str[e])
                            /\ \A k \in (e + 1)..Len(str) : isspace(str[k])
             IN  SubSeq(str, start, end)

\* extract_header_value: found is its return value, value what it leaves
\* in the value buffer when it returns 1.
extract_header_value(line, header_name, value_size) ==
    IF ~strncasecmp_eq(line, header_name, Len(header_name))
    THEN [found |-> FALSE, value |-> <<>>]
    ELSE LET colon == FirstAt(line, 1, {":"}, TRUE)
         IN  IF colon > Len(line)
             THEN [found |-> FALSE, value |-> <<>>]
             ELSE [found |-> TRUE,
                   value |-> trim_whitespace(
                       strncpy_field(Drop(line, colon + 1), value_size))]

\* One pass of the header loop's body over a line: the first of the four
\* headers that extracts a value takes the line.
HeaderLine(line, req) ==
    LET h == extract_header_value(line, Str("Host"), REQ_HOST_SIZE)
        u == extract_header_value(line, Str("User-Agent"), REQ_USER_AGENT_SIZE)
        a == extract_header_value(line, Str("Accept"), REQ_ACCEPT_SIZE)
        c == extract_header_value(line, Str("Connection"), REQ_CONNECTION_SIZE)
    IN  IF h.found THEN [req EXCEPT !.host = h.value]
        ELSE IF u.found THEN [req EXCEPT !.user_agent = u.value]
        ELSE IF a.found THEN [req EXCEPT !.accept = a.value]
        ELSE IF c.found THEN [req EXCEPT !.connection = c.value]
        ELSE req

\* The header loop: while strtok_r yields a line of length > 0.
RECURSIVE HeaderLoop(_, _, _)
HeaderLoop(copy, p, req) ==
    LET t == strtok_r(copy, p, CRLF)
    IN  IF t.tok = NULLP \/ Len(t.tok) = 0
        THEN req
        ELSE HeaderLoop(copy, t.next, HeaderLine(t.tok, req))

\* The outcomes of the two allocations of parse_http_request.
ParseHeap == [req : BOOLEAN, copy : BOOLEAN]
ParseHeapOk == [req |-> TRUE, copy |-> TRUE]

\* A mutation: a request line without a version is accepted.
parse_http_request_no_version(raw_request, heap) ==
    IF raw_request = NULLP THEN NULL
    ELSE IF ~heap.req \/ ~heap.copy THEN NULL
    ELSE
      LET request_copy == CStr(raw_request)
          l1 == strtok_r(request_copy, 1, CRLF)
      IN  IF l1.tok = NULLP THEN NULL
          ELSE
            LET m == strtok_r(l1.tok, 1, {" "})
                pa == strtok_r(l1.tok, m.next, {" "})
                v == strtok_r(l1.tok, pa.next, {" "})
            IN  IF m.tok = NULLP \/ pa.tok = NULLP THEN NULL
                ELSE HeaderLoop(request_copy, l1.next,
                       [method |-> strncpy_field(m.tok, REQ_METHOD_SIZE),
                        path |-> strncpy_field(pa.tok, REQ_PATH_SIZE),
                        version |-> IF v.tok = NULLP THEN <<>>
                                    ELSE strncpy_field(v.tok, REQ_VERSION_SIZE),
                        host |-> <<>>, user_agent |-> <<>>,
                        accept |-> <<>>, connection |-> <<>>])

\* parse_http_request(raw_request): the Request, or NULL.
parse_http_request(raw_request, heap) ==
    IF raw_request = NULLP THEN NULL
    ELSE IF ~heap.req THEN NULL
    ELSE IF ~heap.copy THEN NULL
    ELSE
      LET request_copy == CStr(raw_request)
          l1 == strtok_r(request_copy, 1, CRLF)
      IN  IF l1.tok = NULLP THEN NULL
          ELSE
            LET m == strtok_r(l1.tok, 1, {" "})
                pa == strtok_r(l1.tok, m.next, {" "})
                v == strtok_r(l1.tok, pa.next, {" "})
            IN  IF m.tok = NULLP \/ pa.tok = NULLP \/ v.tok = NULLP
                THEN NULL
                ELSE
                  LET req == HeaderLoop(request_copy, l1.next,
                               [method |-> strncpy_field(m.tok, REQ_METHOD_SIZE),
                                path |-> strncpy_field(pa.tok, REQ_PATH_SIZE),
                                version |-> strncpy_field(v.tok, REQ_VERSION_SIZE),
                                host |-> <<>>, user_agent |-> <<>>,
                                accept |-> <<>>, connection |-> <<>>])
                  IN  IF Len(req.method) = 0 \/ Len(req.path) = 0
                      THEN NULL
                      ELSE req

(***************************************************************************)
(* Response builder and serializer.                                        *)
(***************************************************************************)
RES_VERSION_SIZE == 16
RES_SERVER_SIZE == 64
RES_CONNECTION_SIZE == 32
RES_DATE_SIZE == 64

HTTP_STATUS_OK == 200
HTTP_STATUS_BAD_REQUEST == 400
HTTP_STATUS_NOT_FOUND == 404
HTTP_STATUS_METHOD_NOT_ALLOWED == 405
HTTP_STATUS_INTERNAL_SERVER_ERROR == 500

get_status_message(status_code) ==
    CASE status_code = 200 -> Str("OK")
      [] status_code = 201 -> Str("Created")
      [] status_code = 204 -> Str("No Content")
      [] status_code = 400 -> Str("Bad Request")
      [] status_code = 401 -> Str("Unauthorized")
      [] status_code = 403 -> Str("Forbidden")
      [] status_code = 404 -> Str("Not Found")
      [] status_code = 405 -> Str("Method Not Allowed")
      [] status_code = 500 -> Str("Internal Server Error")
      [] status_code = 501 -> Str("Not Implemented")
      [] status_code = 503 -> Str("Service Unavailable")
      [] OTHER -> Str("Unknown")

\* The outcomes of the two allocations of create_http_response.
ResHeap == [res : BOOLEAN, body : BOOLEAN]
ResHeapOk == [res |-> TRUE, body |-> TRUE]

\* create_http_response(status_code, content_type, body), date being the
\* clock's reading as strftime formats it.  The body is taken as a C
\* string: its length is strlen(body) and strcpy copies that many bytes.
\* The body field holds the bytes of the copy before its terminating zero;
\* the buffer allocated for it is one byte longer.
create_http_response(status_code, content_type, body, date, heap) ==
    IF content_type = NULLP THEN NULL
    ELSE IF ~heap.res THEN NULL
    ELSE IF body # NULLP /\ ~heap.body THEN NULL
    ELSE [version |-> strncpy_field(Str("HTTP/1.1"), RES_VERSION_SIZE),
          status_code |-> status_code,
          status_message |-> strncpy_field(get_status_message(status_code),
                                           RES_STATUS_MESSAGE_SIZE),
          date |-> date,
          server |-> strncpy_field(Str("CServer/1.0"), RES_SERVER_SIZE),
          content_type |-> strncpy_field(content_type, RES_CONTENT_TYPE_SIZE),
          content_length |-> IF body # NULLP THEN strlen(body) ELSE 0,
          connection |-> strncpy_field(Str("close"), RES_CONNECTION_SIZE),
          body |-> IF body # NULLP THEN CStr(body) ELSE NULLP]

\* The bytes of a body buffer as allocated: the string and its terminator.
BodyBuffer(response) == response.body \o <<NUL>>

DigitSeq == Str("0123456789")

\* printf's %d and %zu of a number >= 0.
RECURSIVE Dec(_)
Dec(n) ==
    IF n < 10 THEN <<DigitSeq[n + 1]>>
    ELSE Dec(n \div 10) \o <<DigitSeq[(n % 10) + 1]>>

\* printf's %d.
DecInt(n) == IF n < 0 THEN Str("-") \o Dec(0 - n) ELSE Dec(n)

\* A size_t is 64 bits wide.  A value below 2^63 is written as itself and
\* a value v from 2^63 on as v - 2^64, the integer below zero congruent to
\* it: sums and differences then agree with the arithmetic modulo 2^64,
\* and -1 is SIZE_MAX.
SIZE_MAX == -1

\* a >= b between two size_t.
SizeGe(a, b) == IF (a < 0) = (b < 0) THEN a >= b ELSE a < 0

\* printf's %zu, for the values up to 2^31 and the 1616 largest ones:
\* 2^64 is 18446744073709551616.
DecSize(n) ==
    IF n >= 0 THEN Dec(n)
    ELSE LET low == Dec(1616 + n)
         IN  Str("1844674407370955") \o Rep("0", 4 - Len(low)) \o low

\* The process ends on a memory fault.
FAULT == <<"(fault)">>

\* What the snprintf of http_response_to_string formats.
FormatHeader(response) ==
    response.version \o Str(" ") \o DecInt(response.status_code) \o Str(" ")
        \o response.status_message \o Str("\r\n")
    \o Str("Date: ") \o response.date \o Str("\r\n")
    \o Str("Server: ") \o response.server \o Str("\r\n")
    \o Str("Content-Type: ") \o response.content_type \o Str("\r\n")
    \o Str("Content-Length: ") \o DecSize(response.content_length)
        \o Str("\r\n")
    \o Str("Connection: ") \o response.connection \o Str("\r\n")
    \o Str("\r\n")

HEADER_SIZE == 512

\* A mutation: the body is appended as a C string (strcat), which stops at
\* its first zero byte.
http_response_to_string_strcat(response, heap_ok, beyond) ==
    IF response = NULL THEN NULLP
    ELSE IF ~heap_ok THEN NULLP
    ELSE IF Len(FormatHeader(response)) >= HEADER_SIZE THEN NULLP
    ELSE IF response.body # NULLP /\ response.content_length > 0
         THEN FormatHeader(response) \o CStr(response.body)
         ELSE FormatHeader(response)

\* http_response_to_string(response): NULLP, or the bytes written to the
\* returned buffer before its terminating zero.  total_size is a size_t
\* sum and wraps; snprintf returns the length of the whole header whatever
\* total_size lets it write.  memcpy copies content_length bytes from the
\* body buffer; beyond is what lies in mapped memory after that buffer,
\* which a content_length larger than the buffer makes it read, and a
\* copy that goes further ends the process.
http_response_to_string(response, heap_ok, beyond) ==
    IF response = NULL THEN NULLP
    ELSE IF ~heap_ok THEN NULLP
    ELSE
      LET header_size == HEADER_SIZE
          total_size == header_size + response.content_length + 1
          header == FormatHeader(response)
          written == Len(header)
          memory == BodyBuffer(response) \o beyond
      IN  IF written >= header_size THEN NULLP
          ELSE IF response.body # NULLP /\ response.content_length # 0
               THEN IF SizeGe(written + response.content_length, total_size)
                    THEN NULLP
                    ELSE IF \/ response.content_length < 0
                            \/ response.content_length > Len(memory)
                         THEN FAULT
                         ELSE header \o SubSeq(memory, 1,
                                               response.content_length)
               ELSE IF total_size = 0 THEN FAULT
               ELSE IF total_size > 0 /\ total_size <= written
                    THEN Take(header, total_size - 1)
                    ELSE header

\* The number of bytes memcpy reads past the end of the body buffer.
OverRead(response) ==
    IF response = NULL THEN 0
    ELSE IF response.body = NULLP THEN 0
    ELSE IF response.content_length > Len(response.body) + 1
         THEN response.content_length - (Len(response.body) + 1)
         ELSE 0

(***************************************************************************)
(* Static file handler.                                                    *)
(***************************************************************************)
\* The extension table, in the order of the strstr tests.
ContentTypeTable ==
    << <<Str(".html"), Str("text/html")>>,
       <<Str(".css"), Str("text/css")>>,
       <<Str(".js"), Str("application/javascript")>>,
       <<Str(".png"), Str("image/png")>>,
       <<Str(".jpg"), Str("image/jpeg")>>,
       <<Str(".jpeg"), Str("image/jpeg")>>,
       <<Str(".ico"), Str("image/x-icon")>> >>

\* A mutation: an extension counts only at the end of the path.
SelectContentType_suffix(path) ==
    LET ends(ext) == /\ Len(path) >= Len(ext)
                     /\ Drop(path, Len(path) - Len(ext) + 1) = ext
    IN  IF \E i \in 1..Len(ContentTypeTable) : ends(ContentTypeTable[i][1])
        THEN ContentTypeTable[CHOOSE i \in 1..Len(ContentTypeTable) :
                 /\ ends(ContentTypeTable[i][1])
                 /\ \A j \in 1..(i - 1) : ~ends(ContentTypeTable[j][1])][2]
        ELSE Str("text/plain")

\* The content type the if-else chain over the path selects.
SelectContentType(path) ==
    IF \E i \in 1..Len(ContentTypeTable) :
           strstr_found(path, ContentTypeTable[i][1])
    THEN ContentTypeTable[CHOOSE i \in 1..Len(ContentTypeTable) :
             /\ strstr_found(path, ContentTypeTable[i][1])
             /\ \A j \in 1..(i - 1) :
                   ~strstr_found(path, ContentTypeTable[j][1])][2]
    ELSE Str("text/plain")

\* fopen(file_path, "r") on the file system fs, a set of files
\* [name, data]: the file of that name, or NULL.
fopen(fs, file_path) ==
    IF \E f \in fs : f.name = file_path
    THEN CHOOSE f \in fs : f.name = file_path
    ELSE NULL

\* What the handler's calls may meet: the outcomes of malloc for the file
\* content, of fread, of the allocations of create_http_response, and the
\* date the clock gives.
HandlerEnv(dates) ==
    [content : BOOLEAN, read : BOOLEAN, heap : ResHeap, date : dates]

\* What a call of the handler did besides returning res: path is what it
\* left in req->path, validated whether validate_path ran, opened the name
\* passed to fopen (NULLP if none was), closed the number of fclose calls,
\* content the fate of the file content buffer ("none": never allocated,
\* "freed", or "live": still allocated on return).
Outcome(res, path, validated, opened, closed, content) ==
    [res |-> res, path |-> path, validated |-> validated,
     opened |-> opened, closed |-> closed, content |-> content]

\* A mutation: the 404 response always has the content type text/plain.
ServeFile_plain404(req, root_dir, fs, env) ==
    LET path == IF strcmp_eq(req.path, Str("/"))
                THEN strncpy_field(Str("/index.html"), REQ_PATH_SIZE)
                ELSE req.path
        content_type == SelectContentType(path)
        file_path == Take(root_dir \o path, MAX_DIR_PATH_SIZE - 1)
        file == fopen(fs, file_path)
    IN  IF file = NULL
        THEN Outcome(create_http_response(HTTP_STATUS_NOT_FOUND,
                        Str("text/plain"), Str("Not Found"), env.date,
                        env.heap),
                     path, TRUE, file_path, 0, "none")
        ELSE
          LET file_size == Len(file.data)
              \* fread(file_content, file_size, 1, file) returns the
              \* number of whole items read: 0 for an item of size 0.
              bytes_read == IF env.read /\ file_size > 0 THEN 1 ELSE 0
              \* the buffer of file_size + 1 bytes, the last one zero
              file_content == file.data \o <<NUL>>
          IN  IF ~env.content
              THEN Outcome(create_http_response(
                              HTTP_STATUS_INTERNAL_SERVER_ERROR, content_type,
                              Str("Internal Server Error"), env.date, env.heap),
                           path, TRUE, file_path, 1, "none")
              ELSE IF bytes_read # 1
              THEN Outcome(create_http_response(
                              HTTP_STATUS_INTERNAL_SERVER_ERROR, content_type,
                              Str("Internal Server Error"), env.date, env.heap),
                           path, TRUE, file_path, 1, "freed")
              ELSE
                LET response == create_http_response(HTTP_STATUS_OK,
                                    content_type, file_content,
                                    env.date, env.heap)
                IN  IF response = NULL
                    THEN Outcome(NULL, path, TRUE, file_path, 1, "freed")
                    ELSE Outcome(
                           [response EXCEPT !.content_length = file_size],
                           path, TRUE, file_path, 1, "live")

\* A mutation: a failed read returns without fclose.
ServeFile_no_fclose(req, root_dir, fs, env) ==
    LET path == IF strcmp_eq(req.path, Str("/"))
                THEN strncpy_field(Str("/index.html"), REQ_PATH_SIZE)
                ELSE req.path
        content_type == SelectContentType(path)
        file_path == Take(root_dir \o path, MAX_DIR_PATH_SIZE - 1)
        file == fopen(fs, file_path)
    IN  IF file = NULL
        THEN Outcome(create_http_response(HTTP_STATUS_NOT_FOUND,
                        content_type, Str("Not Found"), env.date, env.heap),
                     path, TRUE, file_path, 0, "none")
        ELSE
          LET file_size == Len(file.data)
              \* fread(file_content, file_size, 1, file) returns the
              \* number of whole items read: 0 for an item of size 0.
              bytes_read == IF env.read /\ file_size > 0 THEN 1 ELSE 0
              \* the buffer of file_size + 1 bytes, the last one zero
              file_content == file.data \o <<NUL>>
          IN  IF ~env.content
              THEN Outcome(create_http_response(
                              HTTP_STATUS_INTERNAL_SERVER_ERROR, content_type,
                              Str("Internal Server Error"), env.date, env.heap),
                           path, TRUE, file_path, 1, "none")
              ELSE IF bytes_read # 1
              THEN Outcome(create_http_response(
                              HTTP_STATUS_INTERNAL_SERVER_ERROR, content_type,
                              Str("Internal Server Error"), env.date, env.heap),
                           path, TRUE, file_path, 0, "freed")
              ELSE
                LET response == create_http_response(HTTP_STATUS_OK,
                                    content_type, file_content,
                                    env.date, env.heap)
                IN  IF response = NULL
                    THEN Outcome(NULL, path, TRUE, file_path, 1, "freed")
                    ELSE Outcome(
                           [response EXCEPT !.content_length = file_size],
                           path, TRUE, file_path, 1, "live")

\* The handler from the rewrite of "/" on (the path has passed
\* validate_path): select the content type, open and read the file, build
\* the response.
ServeFile(req, root_dir, fs, env) ==
    LET path == IF strcmp_eq(req.path, Str("/"))
                THEN strncpy_field(Str("/index.html"), REQ_PATH_SIZE)
                ELSE req.path
        content_type == SelectContentType(path)
        file_path == Take(root_dir \o path, MAX_DIR_PATH_SIZE - 1)
        file == fopen(fs, file_path)
    IN  IF file = NULL
        THEN Outcome(create_http_response(HTTP_STATUS_NOT_FOUND,
                        content_type, Str("Not Found"), env.date, env.heap),
                     path, TRUE, file_path, 0, "none")
        ELSE
          LET file_size == Len(file.data)
              \* fread(file_content, file_size, 1, file) returns the
              \* number of whole items read: 0 for an item of size 0.
              bytes_read == IF env.read /\ file_size > 0 THEN 1 ELSE 0
              \* the buffer of file_size + 1 bytes, the last one zero
              file_content == file.data \o <<NUL>>
          IN  IF ~env.content
              THEN Outcome(create_http_response(
                              HTTP_STATUS_INTERNAL_SERVER_ERROR, content_type,
                              Str("Internal Server Error"), env.date, env.heap),
                           path, TRUE, file_path, 1, "none")
              ELSE IF bytes_read # 1
              THEN Outcome(create_http_response(
                              HTTP_STATUS_INTERNAL_SERVER_ERROR, content_type,
                              Str("Internal Server Error"), env.date, env.heap),
                           path, TRUE, file_path, 1, "freed")
              ELSE
                LET response == create_http_response(HTTP_STATUS_OK,
                                    content_type, file_content,
                                    env.date, env.heap)
                IN  IF response = NULL
                    THEN Outcome(NULL, path, TRUE, file_path, 1, "freed")
                    ELSE Outcome(
                           [response EXCEPT !.content_length = file_size],
                           path, TRUE, file_path, 1, "live")

\* A mutation: the file is opened before the path is validated, and a
\* path that fails validation is answered 400 after the open.
cserve_get_handler_open_first(req, root_dir, fs, env) ==
    IF ~strcmp_eq(req.method, Str("GET"))
    THEN Outcome(create_http_response(HTTP_STATUS_METHOD_NOT_ALLOWED,
                    Str("text/plain"), Str("Method Not Allowed"),
                    env.date, env.heap),
                 req.path, FALSE, NULLP, 0, "none")
    ELSE IF validate_path(req.path) = FAILURE
    THEN LET file_path == Take(root_dir \o req.path, MAX_DIR_PATH_SIZE - 1)
         IN  Outcome(create_http_response(HTTP_STATUS_BAD_REQUEST,
                        Str("text/plain"), Str("Bad Request"),
                        env.date, env.heap),
                     req.path, TRUE, file_path,
                     IF fopen(fs, file_path) = NULL THEN 0 ELSE 1, "none")
    ELSE ServeFile(req, root_dir, fs, env)

\* A mutation: the path is not validated.
cserve_get_handler_no_validate(req, root_dir, fs, env) ==
    IF ~strcmp_eq(req.method, Str("GET"))
    THEN Outcome(create_http_response(HTTP_STATUS_METHOD_NOT_ALLOWED,
                    Str("text/plain"), Str("Method Not Allowed"),
                    env.date, env.heap),
                 req.path, FALSE, NULLP, 0, "none")
    ELSE ServeFile(req, root_dir, fs, env)

\* cserve_get_handler(req, root_dir).
cserve_get_handler(req, root_dir, fs, env) ==
    IF ~strcmp_eq(req.method, Str("GET"))
    THEN Outcome(create_http_response(HTTP_STATUS_METHOD_NOT_ALLOWED,
                    Str("text/plain"), Str("Method Not Allowed"),
                    env.date, env.heap),
                 req.path, FALSE, NULLP, 0, "none")
    ELSE IF validate_path(req.path) = FAILURE
    THEN Outcome(create_http_response(HTTP_STATUS_BAD_REQUEST,
                    Str("text/plain"), Str("Bad Request"),
                    env.date, env.heap),
                 req.path, TRUE, NULLP, 0, "none")
    ELSE ServeFile(req, root_dir, fs, env)

\* A mutation: the default branch of the switch answers 501.
cserve_handle_request_501(req, DIRECTORY, fs, env) ==
    IF method_str_to_enum(req.method) = HTTP_METHOD_GET
    THEN cserve_get_handler(req, DIRECTORY, fs, env)
    ELSE Outcome(create_http_response(501,
                    Str("text/plain"), Str("Not Implemented"),
                    env.date, env.heap),
                 req.path, FALSE, NULLP, 0, "none")

\* cserve_handle_request(req), DIRECTORY being the configured root.
cserve_handle_request(req, DIRECTORY, fs, env) ==
    IF method_str_to_enum(req.method) = HTTP_METHOD_GET
    THEN cserve_get_handler(req, DIRECTORY, fs, env)
    ELSE Outcome(create_http_response(HTTP_STATUS_METHOD_NOT_ALLOWED,
                    Str("text/plain"), Str("Method Not Allowed"),
                    env.date, env.heap),
                 req.path, FALSE, NULLP, 0, "none")

(***************************************************************************)
(* The server: configuration, startup and the connection loop.             *)
(***************************************************************************)
MAX_BUFFER_SIZE == 8192

\* The largest number of connections a behaviour accepts.
MaxConns == 2

\* cserve_init(port, directory): snprintf into DIRECTORY, SUCCESS always.
cserve_init(port, directory) ==
    [ret |-> SUCCESS, PORT |-> port,
     DIRECTORY |-> Take(directory, MAX_DIR_PATH_SIZE - 1)]

\* The configuration the command line supplied.
Config == cserve_init(8080, Str("/srv"))

\* The files under the root directory.
FileSystem ==
    { [name |-> Str("/srv/index.html"), data |-> Str("<p>hi</p>")],
      [name |-> Str("/srv/a.png"), data |-> <<HIGH, "P", NUL, "N", "G">>],
      [name |-> Str("/srv/z.ico"), data |-> <<"i", NUL>>],
      [name |-> Str("/srv/s.css"), data |-> Str("p{}")],
      [name |-> Str("/srv/empty.txt"), data |-> <<>>],
      [name |-> Str("/srv/old.html.bak"), data |-> Str("old")] }

\* The name of the file served for the path "/".
IndexName == Config.DIRECTORY \o Str("/index.html")

\* What index.html may hold: text, text with a zero byte, nothing.
IndexContents == { Str("<p>hi</p>"), <<"<", "p", NUL, ">">>, <<>> }

\* The root directory with index.html holding data.
WithIndex(data) ==
    {f \in FileSystem : f.name # IndexName}
        \cup {[name |-> IndexName, data |-> data]}

\* The root directories a request is served from: index.html with each
\* of its contents, and no index.html.
FileSystems ==
    {WithIndex(d) : d \in IndexContents}
        \cup {{f \in FileSystem : f.name # IndexName}}

\* Readings of the clock, as strftime formats them.
Dates == { Str("Sun, 06 Nov 1994 08:49:37 GMT"),
           Str("Wed, 04 Nov 2026 12:00:00 GMT") }

\* The bytes memory may hold after a heap block.
BeyondByte == {NUL, "x"}

\* The sequences of n such bytes.
Beyond(n) == [1..n -> BeyondByte]

\* A request of exactly MAX_BUFFER_SIZE bytes, none of them zero.
FullBuffer ==
    LET start == Str("GET /s.css HTTP/1.1\r\nUser-Agent: ")
    IN  start \o Rep("u", MAX_BUFFER_SIZE - Len(start))

\* What a client may send on a connection and one read returns.
LoopInputs ==
    { Str("GET / HTTP/1.1\r\nHost: h\r\n\r\n"),
      Str("GET /a.png HTTP/1.1\r\n\r\n"),
      Str("GET /../x HTTP/1.1\r\n\r\n"),
      Str("GET /no.txt HTTP/1.1\r\nHost: example.org\r\n\r\n"),
      Str("POST /../x HTTP/1.1\r\n\r\n"),
      Str("BREW / HTTP/1.1\r\n\r\n"),
      Str("get /s.css HTTP/1.0\r\n\r\n"),
      Str("GET /\r\n\r\n"),
      FullBuffer,
      <<>> }

VARIABLES
    pc,             \* where cserve_start is ("returned", "crashed": it has ended)
    server_fd,      \* the listening socket: "unset", "open", "invalid", "closed"
    new_socket,     \* the connection's socket: "none" or "open"
    conns,          \* per accepted connection, the number of close calls on it
    buffer,         \* the bytes written to buffer[] so far; the rest is zero
    rv,             \* what read returned
    req,            \* the Request of this iteration, or NULL
    res,            \* the Response of this iteration, or NULL
    http_response,  \* the serialized response, NULLP when none is allocated
    sent,           \* the send call of this iteration: [data, count], or NULL
    fx,             \* what the handler did in this iteration
    event,          \* how the last iteration (or startup) ended
    live,           \* the number of heap blocks allocated and not freed, by kind
    files_open,     \* the number of FILE handles open
    scanned,        \* the bytes the last parse read, counted from buffer[0]
    call,           \* unit application: the function applied, "none" in the server
    arg,            \* unit application: its arguments
    ret             \* unit application: its results

vars == <<pc, server_fd, new_socket, conns, buffer, rv, req, res,
          http_response, sent, fx, event, live, files_open, scanned,
          call, arg, ret>>

server == <<pc, server_fd, new_socket, conns, buffer, rv, req, res,
            http_response, sent, fx, event, live, files_open, scanned>>
unit == <<call, arg, ret>>

NoFx == Outcome(NULL, <<>>, FALSE, NULLP, 0, "none")
NoLive == [req |-> 0, res |-> 0, body |-> 0, content |-> 0, str |-> 0]

\* cserve_start is entered with the buffer zeroed.
ServerInit ==
    /\ pc = "socket"
    /\ server_fd = "unset"
    /\ new_socket = "none"
    /\ conns = <<>>
    /\ buffer = <<>>
    /\ rv = 0
    /\ req = NULL
    /\ res = NULL
    /\ http_response = NULLP
    /\ sent = NULL
    /\ fx = NoFx
    /\ event = "start"
    /\ live = NoLive
    /\ files_open = 0
    /\ scanned = 0

Init ==
    /\ ServerInit
    /\ call = "none"
    /\ arg = NULL
    /\ ret = NULL

\* close(new_socket): one more close call on the connection accepted last.
close(c) == [c EXCEPT ![Len(c)] = @ + 1]

\* The start of the next iteration: the block-scoped req and res are gone.
Continue(e) ==
    /\ pc' = "accept"
    /\ req' = NULL
    /\ res' = NULL
    /\ event' = e

\* A mutation: the iteration ends without close(new_socket).
NextIteration_no_close(e) ==
    /\ Continue(e)
    /\ UNCHANGED <<new_socket, conns>>

\* close(new_socket), then the next iteration.
NextIteration(e) ==
    /\ new_socket' = "none"
    /\ conns' = close(conns)
    /\ Continue(e)

\* socket(): a descriptor > 0, the descriptor 0, or -1.  Only 0 is taken
\* for a failure.
Socket ==
    /\ pc = "socket"
    /\ \E r \in {"fd", "zero", "error"} :
          /\ server_fd' = CASE r = "fd" -> "open"
                            [] r = "zero" -> "open"
                            [] r = "error" -> "invalid"
          /\ pc' = IF r = "zero" THEN "returned" ELSE "setsockopt"
          /\ event' = IF r = "zero" THEN "socket_failed" ELSE event
    /\ UNCHANGED <<new_socket, conns, buffer, rv, req, res, http_response,
                   sent, fx, live, files_open, scanned, unit>>

\* One of setsockopt, bind, listen: on failure close(server_fd) and return
\* FAILURE.  On the descriptor -1 each of them fails.
StartupStep(at, then) ==
    /\ pc = at
    /\ \E ok \in BOOLEAN :
          IF ok /\ server_fd = "open"
          THEN /\ pc' = then
               /\ UNCHANGED <<server_fd, event>>
          ELSE /\ pc' = "returned"
               /\ server_fd' = IF server_fd = "open" THEN "closed" ELSE server_fd
               /\ event' = at \o "_failed"
    /\ UNCHANGED <<new_socket, conns, buffer, rv, req, res, http_response,
                   sent, fx, live, files_open, scanned, unit>>

Setsockopt == StartupStep("setsockopt", "bind")
Bind == StartupStep("bind", "listen")
Listen == StartupStep("listen", "accept")

\* accept(): a new connection, or an error and the next iteration.
Accept ==
    /\ pc = "accept"
    /\ Len(conns) < MaxConns
    /\ \E ok \in BOOLEAN :
          IF ok
          THEN /\ new_socket' = "open"
               /\ conns' = Append(conns, 0)
               /\ pc' = "read"
               /\ event' = "accepted"
          ELSE /\ event' = "accept_failed"
               /\ UNCHANGED <<new_socket, conns, pc>>
    /\ sent' = NULL
    /\ fx' = NoFx
    /\ UNCHANGED <<server_fd, buffer, rv, req, res, http_response,
                   live, files_open, scanned, unit>>

\* The buffer after read stored data at its start.
Overwrite(old, data) == data \o Drop(old, Len(data) + 1)

\* read(new_socket, buffer, MAX_BUFFER_SIZE): an error, or the bytes that
\* arrived.
Read ==
    /\ pc = "read"
    /\ \/ /\ rv' = -1
          /\ NextIteration("read_failed")
          /\ UNCHANGED buffer
       \/ \E data \in LoopInputs :
             /\ Len(data) <= MAX_BUFFER_SIZE
             /\ rv' = Len(data)
             /\ buffer' = Overwrite(buffer, data)
             /\ pc' = "parse"
             /\ UNCHANGED <<new_socket, conns, req, res, event>>
    /\ UNCHANGED <<server_fd, http_response, sent, fx, live,
                   files_open, scanned, unit>>

\* What may follow the bytes written to buffer[] so far, up to the first
\* zero byte: the zero bytes of its initialization, or, after a buffer
\* filled with MAX_BUFFER_SIZE bytes, what the stack holds there.
StackBeyond(b) ==
    IF Len(b) = MAX_BUFFER_SIZE
    THEN { <<NUL>>, <<"x", NUL>> }
    ELSE { <<NUL>> }

\* The bytes memory holds from buffer[0] on.
Memory(b, beyond) == b \o beyond

\* parse_http_request(buffer).  The buffer is handed over as a C string:
\* strdup reads from buffer[0] up to and including the first zero byte it
\* meets, within the buffer or after it.
Parse ==
    /\ pc = "parse"
    /\ \E heap \in ParseHeap, beyond \in StackBeyond(buffer) :
          LET raw == Memory(buffer, beyond)
              r == parse_http_request(raw, heap)
          IN  /\ scanned' = IF heap.req THEN strlen(raw) + 1 ELSE 0
              /\ IF r = NULL
                 THEN /\ NextIteration("parse_failed")
                      /\ UNCHANGED live
                 ELSE /\ req' = r
                      /\ pc' = "handle"
                      /\ live' = [live EXCEPT !.req = @ + 1]
                      /\ UNCHANGED <<new_socket, conns, res, event>>
    /\ UNCHANGED <<server_fd, buffer, rv, http_response, sent, fx,
                   files_open, unit>>

\* The heap after a handler call with outcome o.
AfterHandler(l, o) ==
    [l EXCEPT !.res = @ + (IF o.res # NULL THEN 1 ELSE 0),
              !.body = @ + (IF o.res # NULL /\ o.res.body # NULLP THEN 1 ELSE 0),
              !.content = @ + (IF o.content = "live" THEN 1 ELSE 0)]

\* The number of files a handler call with outcome o leaves open.
LeftOpen(fs, o) ==
    (IF o.opened # NULLP /\ fopen(fs, o.opened) # NULL THEN 1 ELSE 0) - o.closed

\* cserve_handle_request(req); without a response the connection is closed
\* and the loop goes on.
Handle ==
    /\ pc = "handle"
    /\ \E env \in HandlerEnv(Dates) :
          LET o == cserve_handle_request(req, Config.DIRECTORY, FileSystem, env)
          IN  /\ fx' = o
              /\ live' = AfterHandler(live, o)
              /\ files_open' = files_open + LeftOpen(FileSystem, o)
              /\ IF o.res = NULL
                 THEN NextIteration("no_response")
                 ELSE /\ res' = o.res
                      /\ req' = [req EXCEPT !.path = o.path]
                      /\ pc' = "serialize"
                      /\ UNCHANGED <<new_socket, conns, event>>
    /\ UNCHANGED <<server_fd, buffer, rv, http_response, sent, scanned, unit>>

\* free_http_response(res) and free(req).
AfterRelease(l, response) ==
    [l EXCEPT !.res = @ - 1,
              !.body = @ - (IF response.body # NULLP THEN 1 ELSE 0),
              !.req = @ - 1]

\* http_response_to_string(res); on failure close, release and go on.
\* When content_length exceeds the body buffer, memcpy reads beyond it:
\* it finds some bytes there, or the read leaves the mapped heap and the
\* process ends on the fault.
Serialize ==
    /\ pc = "serialize"
    /\ \/ \E heap_ok \in BOOLEAN, beyond \in Beyond(OverRead(res)) :
             LET str == http_response_to_string(res, heap_ok, beyond)
             IN  /\ http_response' = str
                 /\ IF str = NULLP
                    THEN /\ NextIteration("serialize_failed")
                         /\ live' = AfterRelease(live, res)
                    ELSE /\ pc' = "send"
                         /\ live' = [live EXCEPT !.str = @ + 1]
                         /\ UNCHANGED <<new_socket, conns, req, res, event>>
       \/ /\ OverRead(res) > 0
          /\ pc' = "crashed"
          /\ event' = "crashed"
          /\ UNCHANGED <<new_socket, conns, req, res, http_response, live>>
    /\ UNCHANGED <<server_fd, buffer, rv, sent, fx, files_open, scanned, unit>>

\* send(new_socket, http_response, strlen(http_response), 0), then the
\* frees and close(new_socket).
Send ==
    /\ pc = "send"
    /\ sent' = [data |-> http_response, count |-> strlen(http_response)]
    /\ live' = [AfterRelease(live, res) EXCEPT !.str = @ - 1]
    /\ http_response' = NULLP
    /\ NextIteration("sent")
    /\ UNCHANGED <<server_fd, buffer, rv, fx, files_open, scanned, unit>>

Next ==
    \/ Socket
    \/ Setsockopt
    \/ Bind
    \/ Listen
    \/ Accept
    \/ Read
    \/ Parse
    \/ Handle
    \/ Serialize
    \/ Send

Spec == Init /\ [][Next]_vars

\* The blocking calls return and the steps of an iteration are taken: no
\* step of the loop after accept is put off for ever.
LiveSpec ==
    /\ Spec
    /\ WF_vars(Read)
    /\ WF_vars(Parse)
    /\ WF_vars(Handle)
    /\ WF_vars(Serialize)
    /\ WF_vars(Send)

(***************************************************************************)
(* Unit applications: a function of the program applied once to arguments  *)
(* drawn from a bounded set, the server standing still.                    *)
(***************************************************************************)
UnitInit(fn, args) ==
    /\ ServerInit
    /\ call = fn
    /\ arg \in args
    /\ ret = NULL

\* The longest path validate_path is applied to, the four of the
\* documentation aside.
MaxPathLen == 4

PathAlphabet == {"/", ".", "a", "Z", "7", "_", "-", "%"}

ValidateInputs ==
    {NULLP, Str("/../etc/passwd"), Str("/a/../b"), Str("index.html"),
     Str("/ok_file-1.2.html"), Str("/a b"), Str("/caf\t")}
    \cup UNION { [1..n -> PathAlphabet] : n \in 0..MaxPathLen }

ValidateInit == UnitInit("validate_path", [path : ValidateInputs])

CallValidate ==
    /\ call = "validate_path"
    /\ ret = NULL
    /\ ret' = [value |-> validate_path(arg.path)]
    /\ UNCHANGED <<server, call, arg>>

ValidateSpec == ValidateInit /\ [][CallValidate]_vars

\* The four rules of the path validator, as the specification states them.
IsLetter(c) == c \in LowerCase \/ c \in UpperCase
IsDigit(c) == c \in Digit
PathRules(p) ==
    /\ p # NULLP
    /\ Len(p) > 0
    /\ p[1] = "/"
    /\ ~\E i \in 1..(Len(p) - 1) : p[i] = "." /\ p[i + 1] = "."
    /\ \A i \in 1..Len(p) :
          IsLetter(p[i]) \/ IsDigit(p[i]) \/ p[i] \in {"/", "_", ".", "-"}

\* C5: validate_path(p) succeeds if and only if p is non-null and
\* non-empty, begins with '/', contains no "..", and holds only letters,
\* digits, '/', '_', '.' and '-'; of the documented examples the first
\* three fail and the fourth passes.
C5_ValidateIffRules ==
    (call = "validate_path" /\ ret # NULL) =>
        /\ (ret.value = SUCCESS) <=> PathRules(arg.path)
        /\ ret.value \in {SUCCESS, FAILURE}
        /\ arg.path \in {Str("/../etc/passwd"), Str("/a/../b"), Str("index.html")}
              => ret.value = FAILURE
        /\ arg.path = Str("/ok_file-1.2.html") => ret.value = SUCCESS

\* A path all of whose characters are allowed and which begins with '/'
\* has been rejected for its "..", and another path accepted.
C5_Witness ==
    /\ call = "validate_path"
    /\ ret # NULL
    /\ arg.path = Str("/a/../b")
    /\ ret.value = FAILURE

(***************************************************************************)
(* Parsing and dispatch applied to one buffer: parse_http_request, then    *)
(* cserve_handle_request on the Request it returned.                       *)
(***************************************************************************)
\* METHOD /path VERSION CRLF Host: h CRLF CRLF
WellFormed(m, p, v, h) ==
    m \o Str(" ") \o p \o Str(" ") \o v \o Str("\r\n")
      \o Str("Host: ") \o h \o Str("\r\n\r\n")

Methods ==
    { Str("GET"), Str("get"), Str("Get"), Str("POST"), Str("HEAD"),
      Str("BREW"), Str("ABCDEFGHIJKLMNO"), Str("ABCDEFGHIJKLMNOP") }

Paths ==
    { Str("/"), Str("/index.html"), Str("/a.png"), Str("/z.ico"),
      Str("/s.css"), Str("/empty.txt"), Str("/no.txt"), Str("/old.html.bak"),
      Str("/a/../b"), Str("/x%20y"),
      Str("/missing.txt"), Str("/missing.html"), Str("/x.css.html"),
      Str("/data.json"), Str("/p.jpeg"), Str("/p.jpg.ico"), Str("/.icons/x"),
      Str("/README"),
      Str("/") \o Rep("a", REQ_PATH_SIZE - 2),
      Str("/") \o Rep("a", REQ_PATH_SIZE - 1) }

Versions == { Str("HTTP/1.1"), Str("HTTP/1.0"), Str("HTTP/1.1-extended") }

Hosts ==
    { Str("h"), Str("example.org:8080"), Str("a b"),
      Rep("h", REQ_HOST_SIZE - 1), Rep("h", REQ_HOST_SIZE) }

WellFormedInputs ==
    { [kind |-> "wellformed", m |-> m, p |-> p, v |-> Str("HTTP/1.1"),
       h |-> Str("h"), raw |-> WellFormed(m, p, Str("HTTP/1.1"), Str("h"))] :
         m \in Methods, p \in Paths }
    \cup
    { [kind |-> "wellformed", m |-> Str("GET"), p |-> Str("/"), v |-> v,
       h |-> h, raw |-> WellFormed(Str("GET"), Str("/"), v, h)] :
         v \in Versions, h \in Hosts }

Other(raw) ==
    [kind |-> "other", m |-> <<>>, p |-> <<>>, v |-> <<>>, h |-> <<>>,
     raw |-> raw]

OtherInputs ==
    { Other(Str("GET / HTTP/1.1 extra\r\n\r\n")),
      Other(Str("GET  / HTTP/1.1\r\n\r\n")),
      Other(Str("GET / HTTP/1.1 \r\n\r\n")),
      Other(Str("POST /a b HTTP/1.1\r\nHost: h\r\n\r\n")),
      Other(Str("GET /\r\n\r\n")),
      Other(Str("GET / \r\n\r\n")),
      Other(Str("GET\r\n\r\n")),
      Other(Str("/index.html HTTP/1.1\r\nHost: h\r\n\r\n")),
      Other(Str(" \r\n\r\n")),
      Other(Str("GET / HTTP/1.1\r\nHost: a\r\n\r\nHost: evil\r\n")),
      Other(Str("GET / HTTP/1.1\r\n\r\nConnection: upgrade\r\nAccept: x\r\n\r\n")),
      Other(Str("GET / HTTP/1.1\r\nUser-Agent: curl\r\nAccept: */*\r\nConnection: close\r\n\r\n")),
      Other(Str("GET / HTTP/1.1\r\nHost: a\r\nX-Other: 1\r\n")),
      Other(Str("GET / HTTP/1.1")),
      Other(Str("")),
      Other(Str("\r\n")),
      Other(Str("\r\nGET / HTTP/1.1\r\n\r\n")),
      Other(NULLP) }

\* Header lines to follow the Host line of a well-formed request: names
\* that extend a recognized name, names that are a proper prefix of one,
\* unrelated names, a line without a colon, and recognized names.
ExtraLines ==
    { Str("Accept-Encoding: gzip"), Str("Hostname: evil"),
      Str("connection-test: x"), Str("User-Agent-Hint: y"),
      Str("X-Other: 1"), Str("Hos: t"), Str("Accepted"),
      Str("host: b"), Str("ACCEPT: */*"),
      Str("User-Agent: ") \o Rep("u", REQ_USER_AGENT_SIZE + 3),
      Str("Accept: ") \o Rep("t", REQ_ACCEPT_SIZE),
      Str("Connection: ") \o Rep("k", REQ_CONNECTION_SIZE + 8) }

\* GET / HTTP/1.1 CRLF Host: h CRLF line CRLF CRLF, base being the same
\* request without the line.
ExtraInputs ==
    { [kind |-> "extra", m |-> Str("GET"), p |-> Str("/"),
       v |-> Str("HTTP/1.1"), h |-> Str("h"), line |-> l,
       base |-> WellFormed(Str("GET"), Str("/"), Str("HTTP/1.1"), Str("h")),
       raw |-> Str("GET / HTTP/1.1\r\nHost: h\r\n") \o l \o Str("\r\n\r\n")] :
         l \in ExtraLines }

ServeInputs ==
    { [in |-> i, heap |-> hp] :
         i \in WellFormedInputs \cup OtherInputs \cup ExtraInputs,
         hp \in ParseHeap }

ServeInit == UnitInit("serve", ServeInputs)

CallParse ==
    /\ call = "serve"
    /\ ret = NULL
    /\ ret' = [stage |-> "parsed",
               req |-> parse_http_request(arg.in.raw, arg.heap),
               env |-> NULL, fs |-> {}, out |-> NoFx]
    /\ UNCHANGED <<server, call, arg>>

CallHandle ==
    /\ call = "serve"
    /\ ret # NULL
    /\ ret.stage = "parsed"
    /\ ret.req # NULL
    /\ \E env \in HandlerEnv(Dates), fs \in FileSystems :
          ret' = [stage |-> "handled", req |-> ret.req, env |-> env,
                  fs |-> fs,
                  out |-> cserve_handle_request(ret.req, Config.DIRECTORY,
                                                fs, env)]
    /\ UNCHANGED <<server, call, arg>>

ServeNext == CallParse \/ CallHandle

ServeSpec == ServeInit /\ [][ServeNext]_vars

Parsed == call = "serve" /\ ret # NULL
Handled == call = "serve" /\ ret # NULL /\ ret.stage = "handled"

\* The request line as the specification cuts it: the bytes before the
\* first carriage-return line-feed pair (all of them if there is none).
FirstLine(raw) ==
    IF \E i \in 1..(Len(raw) - 1) : raw[i] = "\r" /\ raw[i + 1] = "\n"
    THEN SubSeq(raw, 1,
                (CHOOSE i \in 1..(Len(raw) - 1) :
                    /\ raw[i] = "\r" /\ raw[i + 1] = "\n"
                    /\ \A j \in 1..(i - 1) :
                          ~(raw[j] = "\r" /\ raw[j + 1] = "\n")) - 1)
    ELSE raw

\* The number of tokens a line splits into on single spaces.
TokenCount(line) == Cardinality({i \in 1..Len(line) : line[i] = " "}) + 1

\* A line holding a byte other than carriage return and line feed.
NotBlank(line) == \E i \in 1..Len(line) : line[i] \notin {"\r", "\n"}

\* The tokens of a well-formed request fit the fields that store them.
Fits(in) ==
    /\ Len(in.m) <= REQ_METHOD_SIZE - 1
    /\ Len(in.p) <= REQ_PATH_SIZE - 1
    /\ Len(in.v) <= REQ_VERSION_SIZE - 1
    /\ Len(in.h) <= REQ_HOST_SIZE - 1

\* C7: for every well-formed request METHOD /path VERSION CRLF Host: h
\* CRLF CRLF whose tokens fit their storage, parse_http_request (its
\* allocations succeeding) returns a Request whose method, path and
\* version are the three tokens and whose host is h.
C7_WellFormedRecovered ==
    (Parsed /\ arg.in.kind = "wellformed" /\ Fits(arg.in)
            /\ arg.heap = ParseHeapOk) =>
        /\ ret.req # NULL
        /\ ret.req.method = arg.in.m
        /\ ret.req.path = arg.in.p
        /\ ret.req.version = arg.in.v
        /\ ret.req.host = arg.in.h

\* C8: a request line that splits on single spaces into more than three
\* tokens makes parse_http_request fail.
C8_MoreThanThreeTokensFail ==
    (Parsed /\ arg.in.raw # NULLP /\ NotBlank(FirstLine(arg.in.raw))
            /\ TokenCount(FirstLine(arg.in.raw)) > 3) =>
        ret.req = NULL

\* C9: a request line that splits on single spaces into fewer than three
\* tokens makes parse_http_request fail.
C9_FewerThanThreeTokensFail ==
    (Parsed /\ arg.in.raw # NULLP /\ NotBlank(FirstLine(arg.in.raw))
            /\ TokenCount(FirstLine(arg.in.raw)) < 3) =>
        ret.req = NULL

\* The request GET / without a version, all allocations succeeding, has
\* been refused.
C9_Witness ==
    /\ Parsed
    /\ arg.in.raw = Str("GET /\r\n\r\n")
    /\ arg.heap = ParseHeapOk
    /\ ret.req = NULL

\* The buffer up to and including its first empty line (all of it if it
\* has none).
HeaderPart(raw) ==
    IF \E i \in 1..(Len(raw) - 3) : SubSeq(raw, i, i + 3) = Str("\r\n\r\n")
    THEN SubSeq(raw, 1,
                (CHOOSE i \in 1..(Len(raw) - 3) :
                    /\ SubSeq(raw, i, i + 3) = Str("\r\n\r\n")
                    /\ \A j \in 1..(i - 1) :
                          SubSeq(raw, j, j + 3) # Str("\r\n\r\n")) + 3)
    ELSE raw

\* C10: header parsing stops at the first empty line: what follows it in
\* the buffer changes nothing in the Request, which is the one parsed from
\* the buffer cut after its first empty line.
C10_StopsAtEmptyLine ==
    (Parsed /\ arg.in.raw # NULLP) =>
        ret.req = parse_http_request(HeaderPart(arg.in.raw), arg.heap)

\* The name of a header line: the bytes before its first colon (the whole
\* line if it has none).
HeaderName(line) == SubSeq(line, 1, FirstAt(line, 1, {":"}, TRUE) - 1)

\* The name of the line is, without regard to case, one of the four.
Recognized(line) ==
    Lower(HeaderName(line)) \in
        { Lower(Str("Host")), Lower(Str("User-Agent")),
          Lower(Str("Accept")), Lower(Str("Connection")) }

\* The four captured header fields of a Request.
Captured(r) == <<r.host, r.user_agent, r.accept, r.connection>>

\* C11: a header line whose name is not, without regard to case, exactly
\* one of Host, User-Agent, Accept, Connection is ignored: the four
\* captured header fields are those of the request without that line,
\* also when the name begins with a recognized name.
C11_UnrecognizedIgnored ==
    (Parsed /\ arg.in.kind = "extra" /\ arg.heap = ParseHeapOk
            /\ ~Recognized(arg.in.line)) =>
        /\ ret.req # NULL
        /\ Captured(ret.req)
              = Captured(parse_http_request(arg.in.base, ParseHeapOk))

\* The buffer begins with a carriage return and line feed: its first line
\* is empty.
FirstLineEmpty(raw) == Len(raw) >= 2 /\ raw[1] = "\r" /\ raw[2] = "\n"

\* C12: parse_http_request fails on null input, on empty input and on any
\* input whose first line is empty, also when a well-formed request line
\* follows that empty line.
C12_NullEmptyBlankFail ==
    (Parsed /\ (arg.in.raw = NULLP \/ Len(arg.in.raw) = 0
                                   \/ FirstLineEmpty(arg.in.raw))) =>
        ret.req = NULL

\* A path on which each of the four rules of the validator holds.
ValidPath(p) == PathRules(p)

\* The file a validated path names under the root fs, or NULL.
FileFor(fs, p) ==
    fopen(fs,
          Config.DIRECTORY \o (IF p = Str("/") THEN Str("/index.html") ELSE p))

\* Every allocation and the read of the handler succeed.
EnvOk(env) == env.content /\ env.read /\ env.heap = ResHeapOk

\* The request the handler was given has the method GET, as the handler
\* compares it.
HandlerGET == Handled /\ ret.req.method = Str("GET")

\* C1: for every GET whose path passes validation and names an existing
\* readable file of N >= 1 bytes, the handler returns 200 with the
\* selected content type, content_length N and a body holding exactly the
\* file's N bytes, zero bytes included.
C1_FileServedExactly ==
    (HandlerGET /\ ValidPath(ret.req.path) /\ EnvOk(ret.env)
                /\ FileFor(ret.fs, ret.req.path) # NULL
                /\ Len(FileFor(ret.fs, ret.req.path).data) >= 1) =>
        LET data == FileFor(ret.fs, ret.req.path).data
            r == ret.out.res
        IN  /\ r # NULL
            /\ r.status_code = 200
            /\ r.content_type = SelectContentType(ret.out.path)
            /\ r.content_length = Len(data)
            /\ r.body # NULLP
            /\ Len(BodyBuffer(r)) >= Len(data)
            /\ SubSeq(BodyBuffer(r), 1, Len(data)) = data

\* ext occurs in path as a substring.
Occurs(ext, path) ==
    \E i \in 1..Len(path) :
        /\ i + Len(ext) - 1 <= Len(path)
        /\ \A k \in 1..Len(ext) : path[i + k - 1] = ext[k]

\* The content type of the first of .html, .css, .js, .png, .jpg, .jpeg,
\* .ico that occurs in the path, and text/plain if none does.
ExpectedType(path) ==
    IF Occurs(Str(".html"), path) THEN Str("text/html")
    ELSE IF Occurs(Str(".css"), path) THEN Str("text/css")
    ELSE IF Occurs(Str(".js"), path) THEN Str("application/javascript")
    ELSE IF Occurs(Str(".png"), path) THEN Str("image/png")
    ELSE IF Occurs(Str(".jpg"), path) THEN Str("image/jpeg")
    ELSE IF Occurs(Str(".jpeg"), path) THEN Str("image/jpeg")
    ELSE IF Occurs(Str(".ico"), path) THEN Str("image/x-icon")
    ELSE Str("text/plain")

\* C14: for a GET whose path is exactly "/" the handler rewrites the path
\* to /index.html and opens the root directory followed by /index.html;
\* when that file exists (allocations and the read succeeding) it returns
\* 200 with content type text/html and a body identical to the file's
\* bytes.
C14_RootServesIndex ==
    (HandlerGET /\ ret.req.path = Str("/")) =>
        /\ ret.out.path = Str("/index.html")
        /\ ret.out.opened = Config.DIRECTORY \o Str("/index.html")
        /\ (FileFor(ret.fs, Str("/")) # NULL /\ EnvOk(ret.env)) =>
              LET data == FileFor(ret.fs, Str("/")).data
                  r == ret.out.res
              IN  /\ r # NULL
                  /\ r.status_code = 200
                  /\ r.content_type = Str("text/html")
                  /\ r.content_length = Len(data)
                  /\ r.body = data

\* C15: for every validated GET path other than "/" the content type of
\* the response is that of the first entry, in the order .html, .css,
\* .js, .png, .jpg, .jpeg, .ico, whose extension occurs anywhere in the
\* path, and text/plain when none occurs (no response only if an
\* allocation fails).
C15_ContentTypeBySubstring ==
    (HandlerGET /\ ValidPath(ret.req.path) /\ ret.req.path # Str("/")) =>
        /\ ret.out.res # NULL =>
              ret.out.res.content_type = ExpectedType(ret.req.path)
        /\ ret.env.heap = ResHeapOk => ret.out.res # NULL

\* A path holding .html before its end, and one holding .jpg before
\* .ico, have been answered with text/html and image/jpeg.
C15_Witness ==
    /\ HandlerGET
    /\ ret.out.res # NULL
    /\ \/ /\ ret.req.path = Str("/old.html.bak")
          /\ ret.out.res.status_code = 200
          /\ ret.out.res.content_type = Str("text/html")
       \/ /\ ret.req.path = Str("/p.jpg.ico")
          /\ ret.out.res.content_type = Str("image/jpeg")

\* C16: for every GET whose path passes validation but whose file cannot
\* be opened under the root directory, the handler returns status 404
\* with the content type selected from the path (text/plain for
\* /missing.txt), the body Not Found and content_length 9 (no response
\* only if an allocation fails).
C16_MissingFileIs404 ==
    (HandlerGET /\ ValidPath(ret.req.path)
                /\ FileFor(ret.fs, ret.req.path) = NULL) =>
        /\ ret.out.opened # NULLP
        /\ ret.out.closed = 0
        /\ ret.out.res # NULL =>
              /\ ret.out.res.status_code = 404
              /\ ret.out.res.content_type =
                    (IF ret.req.path = Str("/") THEN Str("text/html")
                     ELSE ExpectedType(ret.req.path))
              /\ ret.req.path = Str("/missing.txt") =>
                    ret.out.res.content_type = Str("text/plain")
              /\ ret.out.res.body = Str("Not Found")
              /\ ret.out.res.content_length = 9
        /\ ret.env.heap = ResHeapOk => ret.out.res # NULL

\* A GET for /missing.html, which no root directory holds, has been
\* answered 404 with the content type text/html.
C16_Witness ==
    /\ HandlerGET
    /\ ret.req.path = Str("/missing.html")
    /\ ret.out.res # NULL
    /\ ret.out.res.status_code = 404
    /\ ret.out.res.content_type = Str("text/html")

\* The value a header line carries after its colon and one space.
ValueOf(line) == Drop(line, FirstAt(line, 1, {":"}, TRUE) + 2)

\* a is the first Len(a) bytes of b.
IsPrefix(a, b) == Len(a) <= Len(b) /\ a = Take(b, Len(a))

\* C28: parse_http_request cuts a method, path, version or recognized
\* header value longer than its field to at most the capacity of the field
\* minus one and still succeeds; every field of a Request holds a string
\* that ends inside its own storage.
C28_FieldsTruncated ==
    /\ (Parsed /\ ret.req # NULL) =>
          /\ Len(ret.req.method) <= REQ_METHOD_SIZE - 1
          /\ Len(ret.req.path) <= REQ_PATH_SIZE - 1
          /\ Len(ret.req.version) <= REQ_VERSION_SIZE - 1
          /\ Len(ret.req.host) <= REQ_HOST_SIZE - 1
          /\ Len(ret.req.user_agent) <= REQ_USER_AGENT_SIZE - 1
          /\ Len(ret.req.accept) <= REQ_ACCEPT_SIZE - 1
          /\ Len(ret.req.connection) <= REQ_CONNECTION_SIZE - 1
    /\ (Parsed /\ arg.in.kind = "wellformed" /\ arg.heap = ParseHeapOk) =>
          /\ ret.req # NULL
          /\ ret.req.method = Take(arg.in.m, REQ_METHOD_SIZE - 1)
          /\ ret.req.path = Take(arg.in.p, REQ_PATH_SIZE - 1)
          /\ ret.req.version = Take(arg.in.v, REQ_VERSION_SIZE - 1)
          /\ IsPrefix(ret.req.host, arg.in.h)
          /\ Len(ret.req.host) > 0
    /\ (Parsed /\ arg.in.kind = "extra" /\ arg.heap = ParseHeapOk) =>
          LET name == Lower(HeaderName(arg.in.line))
              value == ValueOf(arg.in.line)
          IN  /\ ret.req # NULL
              /\ name = Lower(Str("User-Agent")) =>
                    /\ IsPrefix(ret.req.user_agent, value)
                    /\ Len(ret.req.user_agent) > 0
              /\ name = Lower(Str("Accept")) =>
                    /\ IsPrefix(ret.req.accept, value)
                    /\ Len(ret.req.accept) > 0
              /\ name = Lower(Str("Connection")) =>
                    /\ IsPrefix(ret.req.connection, value)
                    /\ Len(ret.req.connection) > 0

\* A request whose method has as many bytes as the method field has been
\* parsed into a Request holding the method without its last byte.
C28_Witness ==
    /\ Parsed
    /\ arg.in.kind = "wellformed"
    /\ Len(arg.in.m) = REQ_METHOD_SIZE
    /\ ret.req # NULL
    /\ ret.req.method = Take(arg.in.m, REQ_METHOD_SIZE - 1)

\* C27: every name passed to fopen is the configured root directory
\* followed by a prefix of the request path, after the rewrite of "/" to
\* /index.html, and that path has passed validate_path; no name is passed
\* to fopen for a request path that holds "..", does not begin with '/',
\* or holds a character other than letters, digits, '/', '_', '.', '-'.
C27_PathConfinement ==
    /\ (Handled /\ ret.out.opened # NULLP) =>
          LET root == Config.DIRECTORY
              rest == Drop(ret.out.opened, Len(root) + 1)
          IN  /\ Take(ret.out.opened, Len(root)) = root
              /\ ret.out.path =
                    (IF ret.req.path = Str("/") THEN Str("/index.html")
                     ELSE ret.req.path)
              /\ rest = Take(ret.out.path, Len(rest))
              /\ Len(rest) = Min(Len(ret.out.path),
                                 MAX_DIR_PATH_SIZE - 1 - Len(root))
              /\ ret.out.validated
              /\ PathRules(ret.req.path)
    /\ (Handled /\ (\/ Occurs(Str(".."), ret.req.path)
                    \/ Len(ret.req.path) = 0
                    \/ ret.req.path[1] # "/"
                    \/ \E i \in 1..Len(ret.req.path) :
                          ret.req.path[i] \notin PathChar)) =>
          ret.out.opened = NULLP

\* A GET for a path of the largest length a Request holds has had the
\* root directory followed by that path passed to fopen.
C27_Witness ==
    /\ Handled
    /\ Len(ret.req.path) = REQ_PATH_SIZE - 1
    /\ ret.out.opened = Config.DIRECTORY \o ret.req.path

\* C23: dispatch and the handler agree on what GET is: every request whose
\* method is GET without regard to case (get, Get) is answered by the
\* handler with 200, 400, 404 or 500, never 405.
C23_DispatchAgreesOnGet ==
    (Handled /\ Lower(ret.req.method) = Lower(Str("GET"))
             /\ ret.out.res # NULL) =>
        ret.out.res.status_code \in {200, 400, 404, 500}

\* C24: the handler answers 500 only when the allocation of the content
\* buffer or the read fails after a successful open: an existing file of
\* length zero is served as 200 with content_length 0.
C24_EmptyFileIs200 ==
    (HandlerGET /\ ValidPath(ret.req.path) /\ ret.out.res # NULL) =>
        /\ ret.out.res.status_code = 500 =>
              /\ FileFor(ret.fs, ret.req.path) # NULL
              /\ ~ret.env.content \/ ~ret.env.read
        /\ (FileFor(ret.fs, ret.req.path) # NULL /\ EnvOk(ret.env)
                /\ Len(FileFor(ret.fs, ret.req.path).data) = 0) =>
              /\ ret.out.res.status_code = 200
              /\ ret.out.res.content_length = 0

\* C4: for every GET request whose path fails validate_path the handler
\* returns a 400 Bad Request response (no response only if an allocation
\* fails) and passes no name to fopen; nor is any file opened when the
\* method reached the handler in another case (get, Get).
C4_InvalidPathNoOpen ==
    /\ (HandlerGET /\ ~ValidPath(ret.req.path)) =>
          /\ ret.out.validated
          /\ ret.out.opened = NULLP
          /\ ret.out.closed = 0
          /\ ret.out.res # NULL =>
                /\ ret.out.res.status_code = 400
                /\ ret.out.res.status_message = Str("Bad Request")
          /\ ret.env.heap = ResHeapOk => ret.out.res # NULL
    /\ (Handled /\ ~ValidPath(ret.req.path)) => ret.out.opened = NULLP

\* A GET for /a/../b has been answered 400.
C4_Witness ==
    /\ HandlerGET
    /\ ret.req.path = Str("/a/../b")
    /\ ret.out.res # NULL
    /\ ret.out.res.status_code = 400

\* C6: every request whose method is not GET, enumerated or not, parses
\* successfully and is answered 405 whatever its path (no response only if
\* an allocation fails), without path validation and without any fopen.
C6_NonGetIs405 ==
    /\ (Parsed /\ arg.in.kind = "wellformed" /\ arg.heap = ParseHeapOk
               /\ arg.in.m # Str("GET")) =>
          /\ ret.req # NULL
          /\ ret.req.method # Str("GET")
    /\ (Handled /\ ret.req.method # Str("GET")) =>
          /\ ~ret.out.validated
          /\ ret.out.opened = NULLP
          /\ ret.out.res # NULL => ret.out.res.status_code = 405
          /\ ret.env.heap = ResHeapOk => ret.out.res # NULL

\* A POST and an unrecognized method, each with a path that would fail
\* validation, have been answered 405.
C6_Witness ==
    /\ Handled
    /\ arg.in.kind = "wellformed"
    /\ arg.in.m \in {Str("POST"), Str("BREW")}
    /\ arg.in.p = Str("/a/../b")
    /\ ret.out.res # NULL
    /\ ret.out.res.status_code = 405

(***************************************************************************)
(* The serializer applied to one response.                                 *)
(***************************************************************************)
\* The longest body of a response the serializer is applied to.
MaxBodyLen == 3

BodyByte == {"a", NUL, HIGH}

\* Responses that satisfy the Response invariant: no body and
\* content_length 0, or a body of content_length bytes.
SerResponses ==
    { [create_http_response(st, ct, NULLP, d, ResHeapOk)
          EXCEPT !.body = b,
                 !.content_length = IF b = NULLP THEN 0 ELSE Len(b)] :
        st \in {200, 404, 500},
        ct \in {Str("text/html"), Str("image/png")},
        d \in Dates,
        b \in {NULLP} \cup UNION { [1..n -> BodyByte] : n \in 0..MaxBodyLen } }

SerInit ==
    UnitInit("http_response_to_string",
             [response : SerResponses, heap_ok : BOOLEAN])

\* A body of content_length bytes is held in a buffer of at least that
\* size, so that memcpy reads nothing beyond it.
CallSerialize ==
    /\ call = "http_response_to_string"
    /\ ret = NULL
    /\ ret' = [str |-> http_response_to_string(arg.response, arg.heap_ok, <<>>)]
    /\ UNCHANGED <<server, call, arg>>

SerSpec == SerInit /\ [][CallSerialize]_vars

\* The position of the last byte of the first blank line of out: of the
\* first CRLF CRLF.
HeaderEnd(out) ==
    (CHOOSE i \in 1..(Len(out) - 3) :
        /\ SubSeq(out, i, i + 3) = Str("\r\n\r\n")
        /\ \A j \in 1..(i - 1) : SubSeq(out, j, j + 3) # Str("\r\n\r\n")) + 3

\* The number a sequence of decimal digits denotes.
RECURSIVE DecValue(_)
DecValue(digits) ==
    IF Len(digits) = 0 THEN 0
    ELSE 10 * DecValue(SubSeq(digits, 1, Len(digits) - 1))
         + (CHOOSE d \in 0..9 : DigitSeq[d + 1] = digits[Len(digits)])

\* The value of the Content-Length header of the header block of out.
ContentLengthValue(out) ==
    LET name == Str("\r\nContent-Length: ")
        at == CHOOSE i \in 1..HeaderEnd(out) :
                  SubSeq(out, i, i + Len(name) - 1) = name
        from == at + Len(name)
        to == FirstAt(out, from, {"\r"}, TRUE) - 1
    IN  DecValue(SubSeq(out, from, to))

\* The body of a response as a sequence of bytes.
BodyBytes(response) ==
    IF response.body = NULLP THEN <<>> ELSE response.body

\* C2: for a response whose body has length L, http_response_to_string
\* (its allocation succeeding) produces output whose Content-Length header
\* value is L and whose L bytes after the blank line that ends the header
\* block are the body, whatever bytes the body holds.
C2_SerializedBodyExact ==
    (call = "http_response_to_string" /\ ret # NULL) =>
        /\ arg.heap_ok => ret.str # NULLP
        /\ ret.str # NULLP =>
              LET L == Len(BodyBytes(arg.response))
              IN  /\ ContentLengthValue(ret.str) = L
                  /\ Len(ret.str) = HeaderEnd(ret.str) + L
                  /\ Drop(ret.str, HeaderEnd(ret.str) + 1)
                        = BodyBytes(arg.response)

\* A response whose body holds a zero byte and a byte outside the text
\* range has been serialized.
C2_Witness ==
    /\ call = "http_response_to_string"
    /\ ret # NULL
    /\ ret.str # NULLP
    /\ arg.response.body = <<HIGH, NUL, "a">>

(***************************************************************************)
(* The serializer applied to responses of any content_length.              *)
(***************************************************************************)
\* Values of content_length: small ones, SIZE_MAX, and values around the
\* ones that make header_size + content_length + 1 wrap.
SizeValues ==
    { 0, 1, 3, 1000, SIZE_MAX, 0 - 100, 0 - HEADER_SIZE,
      0 - (HEADER_SIZE + 1), 0 - (HEADER_SIZE + 2), 0 - 1616 }

\* A response each of whose string fields fills its storage, with the
\* longest status code %d formats.
FullResponse ==
    [version |-> Rep("v", RES_VERSION_SIZE - 1),
     status_code |-> 0 - 2147483647,
     status_message |-> Rep("m", RES_STATUS_MESSAGE_SIZE - 1),
     date |-> Rep("d", RES_DATE_SIZE - 1),
     server |-> Rep("s", RES_SERVER_SIZE - 1),
     content_type |-> Rep("t", RES_CONTENT_TYPE_SIZE - 1),
     content_length |-> 0,
     connection |-> Rep("c", RES_CONNECTION_SIZE - 1),
     body |-> Str("abc")]

\* Responses as create_http_response builds them, a content type that
\* fills its field among them, and FullResponse; content_length then takes
\* any of SizeValues.
SizeResponses ==
    { [r EXCEPT !.content_length = n] :
        r \in { create_http_response(st, ct, b, d, ResHeapOk) :
                  st \in {200, 404, 500, 503},
                  ct \in {Str("text/html"), Rep("t", RES_CONTENT_TYPE_SIZE)},
                  b \in {Str("abc"), <<>>},
                  d \in Dates } \cup {FullResponse},
        n \in SizeValues }

SizeInit ==
    UnitInit("http_response_to_string_sizes",
             [response : SizeResponses, heap_ok : BOOLEAN])

\* What lies after the body buffer: nothing mapped, or mapped bytes.
SizeBeyond == { <<>>, Rep("x", 1000) }

CallSerializeSize ==
    /\ call = "http_response_to_string_sizes"
    /\ ret = NULL
    /\ \E beyond \in SizeBeyond :
          ret' = [str |-> http_response_to_string(arg.response, arg.heap_ok,
                                                  beyond)]
    /\ UNCHANGED <<server, call, arg>>

SizeSpec == SizeInit /\ [][CallSerializeSize]_vars

\* C29: for every response whose string fields fit their storage, whatever
\* its content_length, the status line and header block are shorter than
\* the 512 bytes allotted to them, and http_response_to_string fails only
\* when the allocation fails: neither its header-size check nor its
\* body-space check fires.
C29_ChecksNeverFire ==
    (call = "http_response_to_string_sizes" /\ ret # NULL) =>
        /\ Len(FormatHeader(arg.response)) < HEADER_SIZE
        /\ ret.str = NULLP => ~arg.heap_ok

(***************************************************************************)
(* cserve_init applied to one port and one directory.                      *)
(***************************************************************************)
\* The longest of the short directory names cserve_init is applied to.
MaxDirLen == 3

DirByte == {"/", "d", "."}

\* Directory names: short ones, and ones around the size of DIRECTORY.
InitDirectories ==
    UNION { [1..n -> DirByte] : n \in 0..MaxDirLen }
    \cup { Str("/srv"), Str("/var/www/html"),
           Str("/") \o Rep("d", MAX_DIR_PATH_SIZE - 3),
           Str("/") \o Rep("d", MAX_DIR_PATH_SIZE - 2),
           Str("/") \o Rep("d", MAX_DIR_PATH_SIZE - 1),
           Str("/") \o Rep("d", MAX_DIR_PATH_SIZE) }

InitPorts == {80, 8080, 65535}

InitInit ==
    UnitInit("cserve_init", [port : InitPorts, directory : InitDirectories])

CallInit ==
    /\ call = "cserve_init"
    /\ ret = NULL
    /\ ret' = cserve_init(arg.port, arg.directory)
    /\ UNCHANGED <<server, call, arg>>

InitSpec == InitInit /\ [][CallInit]_vars

\* C20: cserve_init stores the port and the directory and returns SUCCESS
\* when the directory and its terminator fit in MAX_DIR_PATH_SIZE bytes,
\* returns a failure when they do not, and never returns SUCCESS holding a
\* directory other than the one supplied.
C20_InitFailsOnOverflow ==
    (call = "cserve_init" /\ ret # NULL) =>
        /\ Len(arg.directory) <= MAX_DIR_PATH_SIZE - 1 =>
              /\ ret.ret = SUCCESS
              /\ ret.PORT = arg.port
              /\ ret.DIRECTORY = arg.directory
        /\ Len(arg.directory) >= MAX_DIR_PATH_SIZE => ret.ret # SUCCESS
        /\ ret.ret = SUCCESS => ret.DIRECTORY = arg.directory

(***************************************************************************)
(* The connection loop.                                                    *)
(***************************************************************************)
\* C3: whenever serialization succeeded, the byte count handed to send is
\* the length of the whole serialized sequence: the header block and
\* content_length bytes of body.
C3_SendsWholeSequence ==
    (sent # NULL) =>
        /\ sent.count = Len(sent.data)
        /\ sent.count = HeaderEnd(sent.data)
                           + ContentLengthValue(sent.data)

\* C13: every response that reaches serialization in the connection loop
\* satisfies the Response invariant: with a body, content_length is the
\* number of bytes the body buffer holds; without one, it is zero.
C13_ResponseInvariant ==
    (pc = "serialize" /\ res # NULL) =>
        /\ res.body # NULLP => res.content_length = Len(res.body)
        /\ res.body = NULLP => res.content_length = 0

\* The connections on which close has not been called.
OpenConns == {i \in 1..Len(conns) : conns[i] = 0}

\* C17: the loop is strictly serial: at most one connection is open at
\* any time, no connection is closed twice, and whenever the loop is at
\* accept every connection accepted so far has been closed exactly once,
\* whichever way its iteration ended.
C17_StrictlySerial ==
    /\ Cardinality(OpenConns) <= 1
    /\ \A i \in 1..Len(conns) : conns[i] <= 1
    /\ OpenConns # {} => OpenConns = {Len(conns)} /\ new_socket = "open"
    /\ pc = "accept" =>
          /\ \A i \in 1..Len(conns) : conns[i] = 1
          /\ new_socket = "none"

\* A second connection has been accepted and has ended in a handler
\* without response, and the loop is back at accept with both closed.
C17_Witness ==
    /\ pc = "accept"
    /\ Len(conns) >= 2
    /\ event = "no_response"
    /\ \A i \in 1..Len(conns) : conns[i] = 1

\* Where cserve_start is while in its loop.
LoopStates == {"accept", "read", "parse", "handle", "serialize", "send"}

\* C18: once startup has succeeded cserve_start stays in its loop for
\* ever, and from every step of an iteration the loop returns to accept.
C18_LoopNeverEnds ==
    /\ [](pc \in LoopStates => [](pc \in LoopStates))
    /\ (pc \in (LoopStates \ {"accept"})) ~> (pc = "accept")

\* C19: cserve_start has returned only on a failure of one of the four
\* startup steps and without any accept; it is in the loop only with the
\* listening socket open; and a listening socket that was created is
\* closed when it returns.
C19_StartupFailureFatal ==
    /\ pc = "returned" =>
          /\ event \in {"socket_failed", "setsockopt_failed",
                        "bind_failed", "listen_failed"}
          /\ conns = <<>>
          /\ new_socket = "none"
          /\ server_fd # "open"
    /\ pc \in LoopStates => server_fd = "open"

\* C21: the Request of a connection is the one parsed from the bytes read
\* on that connection alone, whatever earlier connections sent; and a
\* connection whose read returned zero bytes goes no further than the
\* parse: it is closed without a response.
C21_RequestFromOwnBytes ==
    /\ pc = "handle" =>
          req = parse_http_request(Take(buffer, rv), ParseHeapOk)
    /\ pc \in {"handle", "serialize", "send"} => rv > 0
    /\ (pc = "accept" /\ rv = 0 /\ conns # <<>>) => sent = NULL

\* C22: when read has filled the buffer with MAX_BUFFER_SIZE bytes, the
\* parse reads no byte at or beyond index MAX_BUFFER_SIZE: the bytes it
\* reads from buffer[0] on are at most MAX_BUFFER_SIZE.
C22_ParseStaysInBuffer ==
    (rv = MAX_BUFFER_SIZE /\ pc \in {"handle", "accept"})
        => scanned <= MAX_BUFFER_SIZE

\* C25: in every iteration whose parse succeeded the Request is freed
\* exactly once and the Response, if one was created, is released exactly
\* once before the next accept, whether the handler returned no response,
\* the serialization failed or the response was sent: at accept no Request,
\* Response or body is allocated, and none is ever freed twice.
C25_RequestResponseReleased ==
    /\ live.req >= 0 /\ live.res >= 0 /\ live.body >= 0
    /\ pc = "accept" => live.req = 0 /\ live.res = 0 /\ live.body = 0

\* C26: after a successful read the handler leaves the file-content
\* buffer allocated for the Response to own, and once free_http_response
\* has released that Response every buffer allocated for the file's
\* content has been freed, none of them twice.
C26_FileContentReleased ==
    /\ live.content >= 0
    /\ (pc = "serialize" /\ res # NULL /\ res.status_code = 200)
          => fx.content = "live"
    /\ (pc = "accept" /\ event \in {"sent", "serialize_failed"})
          => live.content = 0

\* C30: every file the handler opens is closed exactly once before it
\* returns, whether the allocation of the content buffer failed, the read
\* failed, the response could not be created or the file was served; a
\* failed open is followed by no close, and no file handle is open
\* anywhere in the loop outside the handler.
C30_FilesClosedOnce ==
    /\ files_open = 0
    /\ fx.opened = NULLP => fx.closed = 0
    /\ fx.opened # NULLP =>
          fx.closed = (IF fopen(FileSystem, fx.opened) # NULL THEN 1 ELSE 0)

\* A file was opened and its read failed after the content buffer was
\* allocated: the handler closed it once and answered 500.
C30_Witness ==
    /\ pc = "serialize"
    /\ res # NULL
    /\ res.status_code = 500
    /\ fx.opened = Str("/srv/a.png")
    /\ fx.content = "freed"
    /\ fx.closed = 1
    /\ files_open = 0

====
